---- MODULE Spec2Model ----
(***************************************************************************)
(* Model of the image-processing controller of src/src/App.tsx: the React  *)
(* state of App (isDragging, isProcessing, processedImage, error), the     *)
(* file input behind fileInputRef, the browser's store of object URLs, and *)
(* the asynchronous runs of handleSampleImageClick and processImage that   *)
(* are suspended at an await.                                              *)
(*                                                                         *)
(* Every handler is one action up to its first await; every continuation   *)
(* after an await is one action (React applies the state updates of one    *)
(* synchronous stretch together).  Handlers may be invoked in any state;   *)
(* awaited promises settle in any order.                                   *)
(***************************************************************************)
EXTENDS Integers, Sequences, FiniteSets, TLC

VARIABLES
    isDragging,      \* useState(false), App.tsx:13
    isProcessing,    \* useState(false), App.tsx:14
    processedImage,  \* useState<ProcessedImage | null>(null), App.tsx:15
    error,           \* useState<string | null>(null), App.tsx:16
    fileInputValue,  \* fileInputRef.current.value ("" when empty or unmounted)
    objectURLs,      \* object URLs created by URL.createObjectURL and not revoked
    nextUrl,         \* the next fresh object URL the browser hands out
    runs,            \* the runs suspended at an await, by run id
    nextRun,         \* id of the next triggered run
    rbCalls,         \* per run id: number of calls of removeBackground
    last             \* the step taken last, other than a drag-over or drag-leave:
                     \* its kind, its run id, the run's record

vars == <<isDragging, isProcessing, processedImage, error, fileInputValue,
          objectURLs, nextUrl, runs, nextRun, rbCalls, last>>

----------------------------------------------------------------------------
(* Bounds of the model *)

\* Number of runs (file selections, drops with a file, sample clicks) triggered.
MaxRuns == 2

RunIds == 1..MaxRuns

----------------------------------------------------------------------------
(* Values *)

\* T | null is modelled as a sequence of length at most one.
None == <<>>
Some(x) == <<x>>
Get(o) == o[1]

\* '...'.startsWith(prefix) on strings given as sequences of characters.
StartsWith(s, prefix) ==
    /\ Len(s) >= Len(prefix)
    /\ SubSeq(s, 1, Len(prefix)) = prefix

ImagePrefix == <<"i", "m", "a", "g", "e", "/">>

ImagePng  == <<"i", "m", "a", "g", "e", "/", "p", "n", "g">>
ImageJpeg == <<"i", "m", "a", "g", "e", "/", "j", "p", "e", "g">>
TextPlain == <<"t", "e", "x", "t", "/", "p", "l", "a", "i", "n">>
TextHtml  == <<"t", "e", "x", "t", "/", "h", "t", "m", "l">>
ImageWord == <<"i", "m", "a", "g", "e">>
NoType    == <<>>

\* 10 * 1024 * 1024, App.tsx:91
MaxFileSize == 10 * 1024 * 1024

\* The user-facing messages (the source's texts are Chinese; named here by meaning).
InvalidTypeMsg      == "InvalidType: please choose a valid image file (PNG, JPG, ...)"
TooLargeMsg         == "TooLarge: image must be smaller than 10MB"
SampleFetchFailMsg  == "SampleFetchFailed: failed to load sample image, try uploading your own"
ProcessingFailedMsg == "ProcessingFailed: background removal failed, try a different image"

\* Prefix of the suggested download name, App.tsx:126
DownloadPrefix == "removed-background-"

\* sampleImages, App.tsx:20-33
sampleImages ==
    { [url |-> "OTshhTxyo3h08kkKwkcfgkfI49AwJiYU.jpeg", name |-> "sample-portrait-1.jpg"],
      [url |-> "do4oamYjSeZV6RjAnhlprWGZEntF3cTB.jpeg", name |-> "sample-portrait-2.jpg"],
      [url |-> "EAaFTepZgfyGkWXOiJJaBMW3hPVySIrc.jpeg", name |-> "sample-portrait-3.jpg"] }

----------------------------------------------------------------------------
(* Inputs the environment can supply *)

FileNames == {"photo.jpg", "renamed.png"}
MediaTypes == {ImagePng, TextPlain, ImageWord}
Sizes == {MaxFileSize, MaxFileSize + 1}

\* File objects handed over by the picker or by a drop.
Files == [name : FileNames, type : MediaTypes, size : Sizes]

\* e.target.files of the file input, which has no "multiple" attribute
\* (App.tsx:181-187): no file or one file.
PickedLists == {<<>>} \cup {<<f>> : f \in Files}

\* e.dataTransfer.files of a drop: no file, one file, or several.
DroppedLists ==
    PickedLists
    \cup {<<f, [name |-> "extra.txt", type |-> TextPlain, size |-> 1]>> : f \in Files}

\* What the fetch of a sample can come to: fetch rejects (network error),
\* response.blob() rejects, or a response (ok or not) whose body has a type
\* and a size.
ResponseTypes == {ImageJpeg, TextHtml, NoType}
Responses ==
    [outcome : {"networkError", "bodyError"}, ok : {FALSE}, type : {NoType}, size : {0}]
    \cup [outcome : {"response"}, ok : BOOLEAN, type : ResponseTypes, size : Sizes]

----------------------------------------------------------------------------
(* Run records *)

\* A run: one invocation of handleFileSelect/handleDrop (processImage) or of
\* handleSampleImageClick.  origin, url, name, file, response and originalUrl
\* are the locals of the invocation; pc is the await it is suspended at.
\* liveBefore and prior record, for the properties, the number of live object
\* URLs and the processedImage held when the run was triggered.  response is
\* kept only for the step that consumes it (App.tsx:68-69).
NoRun ==
    [origin |-> "none", pc |-> "none", url |-> "", name |-> "", file |-> None,
     response |-> None, originalUrl |-> 0, liveBefore |-> 0, prior |-> None]

NewRun(origin, url, name, file) ==
    [origin |-> origin, pc |-> "entered", url |-> url, name |-> name, file |-> file,
     response |-> None, originalUrl |-> 0,
     liveBefore |-> Cardinality(objectURLs), prior |-> processedImage]

Step(kind, id, run) == [kind |-> kind, id |-> id, run |-> run, download |-> None]

Suspend(id, run) ==
    [i \in DOMAIN runs \cup {id} |-> IF i = id THEN run ELSE runs[i]]

Finish(id) == [i \in DOMAIN runs \ {id} |-> runs[i]]

\* The upload area, and the file input in it, is rendered only while no result
\* is held and nothing is processing (App.tsx:158); an input that is not
\* rendered holds no value, and a newly rendered one is empty.
InputMounted == processedImage = None /\ ~isProcessing

Rendered(value) == IF processedImage' = None /\ ~isProcessing' THEN value ELSE ""

----------------------------------------------------------------------------
(* processImage, App.tsx:83-119 *)

\* Validate with the type check comparing against 'image' instead of 'image/'.
ValidateLoosePrefix(file) ==
    IF ~StartsWith(file.type, ImageWord) THEN Some(InvalidTypeMsg)
    ELSE IF file.size > MaxFileSize THEN Some(TooLargeMsg)
    ELSE None

\* Validate with the size check written >= instead of >.
ValidateInclusive(file) ==
    IF ~StartsWith(file.type, ImagePrefix) THEN Some(InvalidTypeMsg)
    ELSE IF file.size >= MaxFileSize THEN Some(TooLargeMsg)
    ELSE None

\* The two validation checks, App.tsx:84-94, in the order of the code: the
\* message to show, or None when the file passes.
Validate(file) ==
    IF ~StartsWith(file.type, ImagePrefix) THEN Some(InvalidTypeMsg)
    ELSE IF file.size > MaxFileSize THEN Some(TooLargeMsg)
    ELSE None

\* A validation check fails, App.tsx:86-87 and 92-93: setError and return.
RejectInput(id, run, message) ==
    /\ error' = message
    /\ UNCHANGED <<isProcessing, processedImage, objectURLs, nextUrl, rbCalls>>
    /\ runs' = Finish(id)
    /\ last' = Step("validationFailed", id, [run EXCEPT !.pc = "returned"])

\* StartProcessing without setError(null).
StartProcessingKeepingError(id, run) ==
    /\ error' = error
    /\ isProcessing' = TRUE
    /\ processedImage' = None
    /\ objectURLs' = objectURLs \cup {nextUrl}
    /\ nextUrl' = nextUrl + 1
    /\ rbCalls' = [rbCalls EXCEPT ![id] = @ + 1]
    /\ runs' = Suspend(id, [run EXCEPT !.pc = "removeBackground",
                                       !.originalUrl = nextUrl,
                                       !.response = None])
    /\ last' = Step("started", id, [run EXCEPT !.pc = "removeBackground",
                                               !.originalUrl = nextUrl])

\* StartProcessing without setProcessedImage(null).
StartProcessingKeepingResult(id, run) ==
    /\ error' = None
    /\ isProcessing' = TRUE
    /\ processedImage' = processedImage
    /\ objectURLs' = objectURLs \cup {nextUrl}
    /\ nextUrl' = nextUrl + 1
    /\ rbCalls' = [rbCalls EXCEPT ![id] = @ + 1]
    /\ runs' = Suspend(id, [run EXCEPT !.pc = "removeBackground",
                                       !.originalUrl = nextUrl,
                                       !.response = None])
    /\ last' = Step("started", id, [run EXCEPT !.pc = "removeBackground",
                                               !.originalUrl = nextUrl])

\* The file passed validation, App.tsx:96-105: the three state updates, the
\* object URL of the original, and the call of removeBackground(file), at
\* whose await the run is suspended.
StartProcessing(id, run) ==
    /\ error' = None
    /\ isProcessing' = TRUE
    /\ processedImage' = None
    /\ objectURLs' = objectURLs \cup {nextUrl}
    /\ nextUrl' = nextUrl + 1
    /\ rbCalls' = [rbCalls EXCEPT ![id] = @ + 1]
    /\ runs' = Suspend(id, [run EXCEPT !.pc = "removeBackground",
                                       !.originalUrl = nextUrl,
                                       !.response = None])
    /\ last' = Step("started", id, [run EXCEPT !.pc = "removeBackground",
                                               !.originalUrl = nextUrl])

\* processImage(file) up to its return (validation fails) or to its await of
\* removeBackground(file).
ProcessImage(id, run) ==
    IF Validate(Get(run.file)) # None
    THEN RejectInput(id, run, Validate(Get(run.file)))
    ELSE StartProcessing(id, run)

\* removeBackground(file) resolves, App.tsx:105-112 and 116-118: the rest of
\* the try block and the finally.
RemoveBackgroundResolves(id) ==
    /\ id \in DOMAIN runs
    /\ runs[id].pc = "removeBackground"
    /\ objectURLs' = objectURLs \cup {nextUrl}
    /\ nextUrl' = nextUrl + 1
    /\ processedImage' = Some([original |-> runs[id].originalUrl,
                               processed |-> nextUrl,
                               filename |-> Get(runs[id].file).name])
    /\ isProcessing' = FALSE
    /\ runs' = Finish(id)
    /\ last' = Step("resolved", id, [runs[id] EXCEPT !.pc = "returned"])
    /\ fileInputValue' = Rendered(fileInputValue)
    /\ UNCHANGED <<isDragging, error, nextRun, rbCalls>>

\* RemoveBackgroundRejects calling removeBackground once more before giving up.
RejectsWithRetry(id) ==
    /\ id \in DOMAIN runs
    /\ runs[id].pc = "removeBackground"
    /\ IF rbCalls[id] < 2
       THEN /\ rbCalls' = [rbCalls EXCEPT ![id] = @ + 1]
            /\ last' = Step("retried", id, runs[id])
            /\ UNCHANGED <<error, isProcessing, runs>>
       ELSE /\ error' = Some(ProcessingFailedMsg)
            /\ isProcessing' = FALSE
            /\ runs' = Finish(id)
            /\ last' = Step("rejected", id, [runs[id] EXCEPT !.pc = "returned"])
            /\ UNCHANGED rbCalls
    /\ UNCHANGED <<isDragging, processedImage, objectURLs, nextUrl, nextRun>>
    /\ fileInputValue' = Rendered(fileInputValue)

\* RemoveBackgroundRejects without the finally block.
RejectsWithoutFinally(id) ==
    /\ id \in DOMAIN runs
    /\ runs[id].pc = "removeBackground"
    /\ error' = Some(ProcessingFailedMsg)
    /\ runs' = Finish(id)
    /\ last' = Step("rejected", id, [runs[id] EXCEPT !.pc = "returned"])
    /\ UNCHANGED <<isDragging, isProcessing, processedImage, objectURLs, nextUrl,
                   nextRun, rbCalls>>
    /\ fileInputValue' = Rendered(fileInputValue)

\* removeBackground(file) rejects, App.tsx:113-118: the catch block and the
\* finally.
RemoveBackgroundRejects(id) ==
    /\ id \in DOMAIN runs
    /\ runs[id].pc = "removeBackground"
    /\ error' = Some(ProcessingFailedMsg)
    /\ isProcessing' = FALSE
    /\ runs' = Finish(id)
    /\ last' = Step("rejected", id, [runs[id] EXCEPT !.pc = "returned"])
    /\ UNCHANGED <<isDragging, processedImage, objectURLs, nextUrl, nextRun, rbCalls>>
    /\ fileInputValue' = Rendered(fileInputValue)

----------------------------------------------------------------------------
(* The event handlers *)

\* handleDragOver, App.tsx:35-38
HandleDragOver ==
    /\ isDragging' = TRUE
    /\ UNCHANGED <<last, isProcessing, processedImage, error, fileInputValue,
                   objectURLs, nextUrl, runs, nextRun, rbCalls>>

\* handleDragLeave, App.tsx:40-43
HandleDragLeave ==
    /\ isDragging' = FALSE
    /\ UNCHANGED <<last, isProcessing, processedImage, error, fileInputValue,
                   objectURLs, nextUrl, runs, nextRun, rbCalls>>

\* handleDrop, App.tsx:45-52: only the first dropped file is used.
HandleDrop(files) ==
    /\ isDragging' = FALSE
    /\ IF Len(files) > 0
       THEN /\ nextRun <= MaxRuns
            /\ nextRun' = nextRun + 1
            /\ ProcessImage(nextRun, NewRun("drop", "", files[1].name, Some(files[1])))
       ELSE /\ last' = Step("dropNothing", 0, NoRun)
            /\ UNCHANGED <<isProcessing, processedImage, error, objectURLs,
                           nextUrl, runs, nextRun, rbCalls>>
    /\ fileInputValue' = Rendered(fileInputValue)

\* handleFileSelect, App.tsx:54-59: the change event of the file input, whose
\* value the browser has set to the selection.
HandleFileSelect(files) ==
    /\ IF Len(files) > 0
       THEN /\ nextRun <= MaxRuns
            /\ nextRun' = nextRun + 1
            /\ ProcessImage(nextRun, NewRun("picker", "", files[1].name, Some(files[1])))
       ELSE /\ last' = Step("selectNothing", 0, NoRun)
            /\ UNCHANGED <<isProcessing, processedImage, error, objectURLs,
                           nextUrl, runs, nextRun, rbCalls>>
    /\ fileInputValue' =
           Rendered(IF InputMounted /\ Len(files) > 0 THEN files[1].name ELSE "")
    /\ UNCHANGED isDragging

\* handleSampleImageClick, App.tsx:61-68, up to its await of fetch(imageUrl).
HandleSampleImageClick(sample) ==
    /\ nextRun <= MaxRuns
    /\ nextRun' = nextRun + 1
    /\ error' = None
    /\ isProcessing' = TRUE
    /\ processedImage' = None
    /\ runs' = Suspend(nextRun, [NewRun("sample", sample.url, sample.name, None)
                                    EXCEPT !.pc = "fetch"])
    /\ last' = Step("fetching", nextRun,
                    [NewRun("sample", sample.url, sample.name, None) EXCEPT !.pc = "fetch"])
    /\ fileInputValue' = Rendered(fileInputValue)
    /\ UNCHANGED <<isDragging, objectURLs, nextUrl, rbCalls>>

\* handleSampleImageClick, App.tsx:68-80, from the settling of fetch on: fetch
\* or response.blob() rejects (the catch block), or the body is wrapped into a
\* File named filename, of the body's type, and handed to processImage.
FetchSettles(id, resp) ==
    /\ id \in DOMAIN runs
    /\ runs[id].pc = "fetch"
    /\ IF resp.outcome # "response"
       THEN /\ error' = Some(SampleFetchFailMsg)
            /\ isProcessing' = FALSE
            /\ runs' = Finish(id)
            /\ last' = Step("fetchFailed", id,
                            [runs[id] EXCEPT !.pc = "returned", !.response = Some(resp)])
            /\ UNCHANGED <<processedImage, objectURLs, nextUrl, rbCalls>>
       ELSE ProcessImage(id, [runs[id] EXCEPT
                !.response = Some(resp),
                !.file = Some([name |-> runs[id].name, type |-> resp.type,
                               size |-> resp.size])])
    /\ fileInputValue' = Rendered(fileInputValue)
    /\ UNCHANGED <<isDragging, nextRun>>

\* HandleDownload suggesting the bare file name.
DownloadWithoutPrefix ==
    /\ last' = [Step("download", 0, NoRun) EXCEPT !.download =
                   IF processedImage = None THEN None
                   ELSE Some([href |-> Get(processedImage).processed,
                              download |-> <<Get(processedImage).filename>>])]
    /\ UNCHANGED <<isDragging, isProcessing, processedImage, error, fileInputValue,
                   objectURLs, nextUrl, runs, nextRun, rbCalls>>

\* handleDownload, App.tsx:121-130: clicks a temporary link; no state is set.
HandleDownload ==
    /\ last' = [Step("download", 0, NoRun) EXCEPT !.download =
                   IF processedImage = None THEN None
                   ELSE Some([href |-> Get(processedImage).processed,
                              download |-> <<DownloadPrefix, Get(processedImage).filename>>])]
    /\ UNCHANGED <<isDragging, isProcessing, processedImage, error, fileInputValue,
                   objectURLs, nextUrl, runs, nextRun, rbCalls>>

\* HandleReset abandoning the runs in flight.
ResetCancellingRuns ==
    /\ processedImage' = None
    /\ error' = None
    /\ fileInputValue' = ""
    /\ runs' = <<>>
    /\ last' = [Step("reset", 0, NoRun) EXCEPT !.run.prior = processedImage,
                                               !.run.liveBefore = Cardinality(objectURLs)]
    /\ UNCHANGED <<isDragging, isProcessing, objectURLs, nextUrl, nextRun, rbCalls>>

\* HandleReset complaining when there is nothing to reset.
ResetComplainingWhenEmpty ==
    /\ processedImage' = None
    /\ error' = IF processedImage = None /\ error = None
                THEN Some(ProcessingFailedMsg) ELSE None
    /\ fileInputValue' = ""
    /\ last' = [Step("reset", 0, NoRun) EXCEPT !.run.prior = processedImage,
                                               !.run.liveBefore = Cardinality(objectURLs)]
    /\ UNCHANGED <<isDragging, isProcessing, objectURLs, nextUrl, runs, nextRun, rbCalls>>

\* handleReset, App.tsx:132-138
HandleReset ==
    /\ processedImage' = None
    /\ error' = None
    /\ fileInputValue' = ""
    /\ last' = [Step("reset", 0, NoRun) EXCEPT !.run.prior = processedImage,
                                               !.run.liveBefore = Cardinality(objectURLs)]
    /\ UNCHANGED <<isDragging, isProcessing, objectURLs, nextUrl, runs, nextRun, rbCalls>>

----------------------------------------------------------------------------
(* The specification *)

Init ==
    /\ isDragging = FALSE
    /\ isProcessing = FALSE
    /\ processedImage = None
    /\ error = None
    /\ fileInputValue = ""
    /\ objectURLs = {}
    /\ nextUrl = 1
    /\ runs = <<>>
    /\ nextRun = 1
    /\ rbCalls = [i \in RunIds |-> 0]
    /\ last = Step("init", 0, NoRun)

DragOver == HandleDragOver
DragLeave == HandleDragLeave
Drop == \E files \in DroppedLists : HandleDrop(files)
FileSelect == \E files \in PickedLists : HandleFileSelect(files)
SampleImageClick == \E sample \in sampleImages : HandleSampleImageClick(sample)
FetchSettled == \E id \in RunIds : \E resp \in Responses : FetchSettles(id, resp)
Resolved == \E id \in RunIds : RemoveBackgroundResolves(id)
Rejected == \E id \in RunIds : RemoveBackgroundRejects(id)
Download == HandleDownload
Reset == HandleReset

Next ==
    \/ DragOver
    \/ DragLeave
    \/ Drop
    \/ FileSelect
    \/ SampleImageClick
    \/ FetchSettled
    \/ Resolved
    \/ Rejected
    \/ Download
    \/ Reset

Spec == Init /\ [][Next]_vars

(* The same program driven only through the controls its view renders for  *)
(* the current state: the upload area with the file input, the drop zone   *)
(* and the sample buttons (App.tsx:158-225), and the result pane with the  *)
(* reset and download buttons (App.tsx:237-293).                           *)

\* UploadAreaRendered without the !isProcessing condition.
UploadAreaRenderedWhileProcessing == processedImage = None

UploadAreaRendered == processedImage = None /\ ~isProcessing

ResultRendered == processedImage # None

DragOverUI == UploadAreaRendered /\ HandleDragOver
DragLeaveUI == UploadAreaRendered /\ HandleDragLeave
DropUI == UploadAreaRendered /\ \E files \in DroppedLists : HandleDrop(files)
FileSelectUI == UploadAreaRendered /\ \E files \in PickedLists : HandleFileSelect(files)
SampleImageClickUI ==
    UploadAreaRendered /\ \E sample \in sampleImages : HandleSampleImageClick(sample)
DownloadUI == ResultRendered /\ HandleDownload
ResetUI == ResultRendered /\ HandleReset

NextUI ==
    \/ DragOverUI
    \/ DragLeaveUI
    \/ DropUI
    \/ FileSelectUI
    \/ SampleImageClickUI
    \/ FetchSettled
    \/ Resolved
    \/ Rejected
    \/ DownloadUI
    \/ ResetUI

SpecUI == Init /\ [][NextUI]_vars

----------------------------------------------------------------------------
(* Properties *)

Live == Cardinality(objectURLs)

\* The step taken last is processImage(file) reaching its return or its await.
ProcessImageRan == last.kind \in {"validationFailed", "started"}

LastFile == Get(last.run.file)

\* The media types of the inputs that do not start with 'image/'.
NonImageTypes == {TextPlain, TextHtml, ImageWord, NoType}

\* The handles a held result refers to.
Held == IF processedImage = None THEN {}
        ELSE {Get(processedImage).original, Get(processedImage).processed}

(* C1: after a run that settled successfully exactly two object URLs are    *)
(* live, and after a reset of a held result none is live.                  *)
C1_TwoHandlesThenNone ==
    /\ last.kind = "resolved" => Live = 2
    /\ (last.kind = "reset" /\ last.run.prior # None) => Live = 0

(* C2: when no run is in flight, every live object URL is referenced by    *)
(* the held processedImage: superseded and reset results have had their    *)
(* handles released.                                                       *)
C2_LiveHandlesAreHeld ==
    DOMAIN runs = {} => objectURLs \subseteq Held

(* C3: when the fetch of a sample fails, by a network error or by a        *)
(* response that is not OK, the run ends with the sample-load-failed       *)
(* message, isProcessing false and removeBackground not called.            *)
C3_SampleFetchFailure ==
    ( /\ last.run.origin = "sample"
      /\ last.run.response # None
      /\ \/ Get(last.run.response).outcome # "response"
         \/ ~Get(last.run.response).ok )
    => /\ error = Some(SampleFetchFailMsg)
       /\ ~isProcessing
       /\ rbCalls[last.id] = 0

(* C4: at most one of isProcessing, a present processedImage and a present *)
(* error holds.                                                            *)
C4_AtMostOne ==
    /\ ~(isProcessing /\ processedImage # None)
    /\ ~(isProcessing /\ error # None)
    /\ ~(processedImage # None /\ error # None)

C6_RejectionHandled ==
    last.kind = "rejected" =>
        /\ error = Some(ProcessingFailedMsg)
        /\ ~isProcessing
        /\ last.run.originalUrl \notin Held
        /\ last.id \notin DOMAIN runs
        /\ last.run.pc = "returned"

C6_Witness ==
    /\ last.kind = "rejected"
    /\ last.run.origin = "sample"
    /\ processedImage # None

(* C7: a run whose removeBackground call rejected leaves as many live      *)
(* object URLs as there were when it started.                              *)
C7_FailedRunCreatesNoHandle ==
    last.kind = "rejected" => Live = last.run.liveBefore

C9_NonImageRejected ==
    (ProcessImageRan /\ LastFile.type \in NonImageTypes) =>
        /\ last.kind = "validationFailed"
        /\ error = Some(InvalidTypeMsg)
        /\ rbCalls[last.id] = 0
        /\ last.id \notin DOMAIN runs

C9_Witness ==
    /\ last.kind = "validationFailed"
    /\ last.run.origin = "picker"
    /\ LastFile.type = TextPlain
    /\ LastFile.name = "renamed.png"
    /\ error = Some(InvalidTypeMsg)

(* C10 as claimed: every input larger than 10,485,760 bytes is rejected    *)
(* with the TooLarge message and removeBackground is not called; an image  *)
(* of exactly 10,485,760 bytes is not rejected.                            *)
C10_OversizeRejectedTooLarge ==
    /\ (ProcessImageRan /\ LastFile.size > 10485760) =>
           /\ last.kind = "validationFailed"
           /\ error = Some(TooLargeMsg)
           /\ rbCalls[last.id] = 0
    /\ (ProcessImageRan /\ LastFile.size = 10485760 /\ LastFile.type = ImagePng) =>
           last.kind = "started"

(* C10 amended: an input larger than 10,485,760 bytes is rejected, with    *)
(* the TooLarge message when its media type starts with 'image/' and with  *)
(* the InvalidType message otherwise; removeBackground is not called and   *)
(* the rejection of an upload or drop does not change isProcessing.  An    *)
(* image of exactly 10,485,760 bytes is not rejected.                      *)
C10_OversizeRejected ==
    /\ []((ProcessImageRan /\ LastFile.size > 10485760) =>
           /\ last.kind = "validationFailed"
           /\ error = Some(IF LastFile.type \in NonImageTypes
                           THEN InvalidTypeMsg ELSE TooLargeMsg)
           /\ rbCalls[last.id] = 0)
    /\ []((ProcessImageRan /\ LastFile.size = 10485760
                           /\ LastFile.type \notin NonImageTypes) =>
           /\ last.kind = "started"
           /\ rbCalls[last.id] = 1)
    /\ [][(/\ last'.kind = "validationFailed"
           /\ last' # last
           /\ last'.run.origin \in {"picker", "drop"}
           /\ Get(last'.run.file).size > 10485760)
          => (isProcessing' = isProcessing /\ runs' = runs)]_vars

C10_Witness ==
    /\ last.kind = "validationFailed"
    /\ last.run.origin = "drop"
    /\ LastFile.type = ImagePng
    /\ LastFile.size = 10485761
    /\ error = Some(TooLargeMsg)
    /\ ~isProcessing

(* C11: every validation failure of processImage, on the sample-click path *)
(* too, changes only the error message: the processedImage held before the *)
(* run is still held and isProcessing is false after the failure.          *)
C11_ValidationFailureOnlySetsError ==
    last.kind = "validationFailed" =>
        /\ error \in {Some(InvalidTypeMsg), Some(TooLargeMsg)}
        /\ processedImage = last.run.prior
        /\ ~isProcessing

(* C12: handleReset is idempotent: after a reset no result, no error and   *)
(* no file-input value is held, and a reset invoked right after a reset    *)
(* changes nothing of the program's state and releases no object URL.      *)
C12_ResetIdempotent ==
    /\ [](last.kind = "reset" =>
            /\ processedImage = None
            /\ error = None
            /\ fileInputValue = "")
    /\ [][(HandleReset /\ last.kind = "reset") =>
            UNCHANGED <<isDragging, isProcessing, processedImage, error,
                        fileInputValue, objectURLs, nextUrl, runs, nextRun,
                        rbCalls>>]_vars

\* A reset taken when a result had been produced (two object URLs are live,
\* the only run triggered has returned) and was no longer held: the result
\* can only have been cleared by an earlier reset.
C12_Witness ==
    /\ last.kind = "reset"
    /\ last.run.prior = None
    /\ last.run.liveBefore = 2
    /\ nextRun = 2
    /\ DOMAIN runs = {}
    /\ error = None

(* The view-driven program in which every pending fetch and every pending  *)
(* removeBackground call eventually settles.                               *)
FairSpecUI ==
    /\ SpecUI
    /\ \A id \in RunIds :
          /\ WF_vars(\E resp \in Responses : FetchSettles(id, resp))
          /\ WF_vars(RemoveBackgroundResolves(id) \/ RemoveBackgroundRejects(id))

(* C13: when every pending fetch and removeBackground call eventually      *)
(* settles, isProcessing, once true, eventually becomes false again.       *)
C13_ProcessingEnds == isProcessing ~> ~isProcessing

(* C14: handleReset does not cancel a run in flight: a reset leaves every  *)
(* suspended run as it was, a run awaiting removeBackground can still      *)
(* settle either way, and when it settles right after the reset it writes  *)
(* its outcome over the reset state: its result on success, the            *)
(* processing-failed message on failure.                                   *)
C14_ResetDoesNotCancel ==
    /\ [][HandleReset => runs' = runs]_vars
    /\ [](\A id \in DOMAIN runs : runs[id].pc = "removeBackground" =>
            /\ ENABLED RemoveBackgroundResolves(id)
            /\ ENABLED RemoveBackgroundRejects(id))
    /\ [][\A id \in RunIds :
            (last.kind = "reset" /\ RemoveBackgroundResolves(id)) =>
                /\ processedImage = None
                /\ processedImage' = Some([original |-> runs[id].originalUrl,
                                           processed |-> nextUrl,
                                           filename |-> runs[id].name])]_vars
    /\ [][\A id \in RunIds :
            (last.kind = "reset" /\ RemoveBackgroundRejects(id)) =>
                /\ error = None
                /\ error' = Some(ProcessingFailedMsg)]_vars

\* A held result has been reset while a run was awaiting removeBackground.
C14_Witness ==
    /\ last.kind = "reset"
    /\ last.run.prior # None
    /\ \E id \in DOMAIN runs : runs[id].pc = "removeBackground"

(* C15: when processImage has accepted an input and issued the             *)
(* removeBackground call, error is absent, processedImage is absent and    *)
(* isProcessing is true, whatever the state was before; the call has been  *)
(* issued once and the run is suspended at it.                             *)
C15_ValidInputEntersProcessing ==
    last.kind = "started" =>
        /\ error = None
        /\ processedImage = None
        /\ isProcessing
        /\ rbCalls[last.id] = 1
        /\ last.id \in DOMAIN runs
        /\ runs[last.id].pc = "removeBackground"

\* A valid input accepted while a result was held.
C15_Witness ==
    /\ last.kind = "started"
    /\ last.run.origin = "picker"
    /\ last.run.prior # None
    /\ processedImage = None

(* C16: within one run removeBackground is called at most once, and only   *)
(* for a file that passed both validation checks; a run awaiting the call  *)
(* has written nothing of its outcome; when the call settles the run       *)
(* writes one outcome, a result (error untouched) or an error              *)
(* (processedImage untouched), and returns, so it writes no second one.    *)
C16_OneCallOneOutcome ==
    /\ [](\A id \in RunIds : rbCalls[id] <= 1)
    /\ [](\A id \in RunIds : rbCalls[id] = 1 => id < nextRun)
    /\ [](ProcessImageRan =>
            (rbCalls[last.id] = 1 <=>
                (/\ LastFile.type \notin NonImageTypes
                 /\ LastFile.size <= 10485760)))
    /\ [](last.kind = "fetchFailed" => rbCalls[last.id] = 0)
    /\ [](\A id \in DOMAIN runs :
            /\ runs[id].pc = "removeBackground" =>
                   (rbCalls[id] = 1 /\ runs[id].originalUrl \notin Held)
            /\ runs[id].pc = "fetch" => rbCalls[id] = 0)
    /\ [][\A id \in RunIds : RemoveBackgroundResolves(id) =>
            /\ processedImage' # None
            /\ Get(processedImage').original = runs[id].originalUrl
            /\ error' = error
            /\ rbCalls' = rbCalls
            /\ id \notin DOMAIN runs']_vars
    /\ [][\A id \in RunIds : RemoveBackgroundRejects(id) =>
            /\ error' = Some(ProcessingFailedMsg)
            /\ processedImage' = processedImage
            /\ rbCalls' = rbCalls
            /\ id \notin DOMAIN runs']_vars

\* A sample run whose file passed validation has had its one call settled.
C16_Witness ==
    /\ last.kind = "resolved"
    /\ last.run.origin = "sample"
    /\ rbCalls[last.id] = 1
    /\ last.id \notin DOMAIN runs

(* C17: handleDownload changes nothing of the program's state and releases *)
(* no object URL; without a held result it does nothing, and with one the  *)
(* link it clicks points at the held processed image and suggests the      *)
(* fixed prefix followed by the held result's file name, which is the file *)
(* name of the run that produced the result.                               *)
C17_DownloadIsLeaf ==
    /\ [][HandleDownload =>
            UNCHANGED <<isDragging, isProcessing, processedImage, error,
                        fileInputValue, objectURLs, nextUrl, runs, nextRun,
                        rbCalls>>]_vars
    /\ [](last.kind = "download" =>
            IF processedImage = None
            THEN last.download = None
            ELSE last.download =
                     Some([href |-> Get(processedImage).processed,
                           download |-> <<"removed-background-",
                                          Get(processedImage).filename>>]))
    /\ [](last.kind = "resolved" =>
            /\ processedImage # None
            /\ Get(processedImage).filename = LastFile.name)
    /\ [][(processedImage' # processedImage /\ processedImage' # None) =>
            last'.kind = "resolved"]_vars

\* The result of a sample run is held and has been downloaded.
C17_Witness ==
    /\ last.kind = "download"
    /\ processedImage # None
    /\ Get(processedImage).filename = "sample-portrait-1.jpg"
    /\ last.download # None

C19_ViewSerialisesRuns ==
    /\ Cardinality(DOMAIN runs) <= 1
    /\ DOMAIN runs # {} => (isProcessing /\ processedImage = None)
    /\ last.kind = "reset" => DOMAIN runs = {}

\* A second run is in flight after the first one's result was reset.
C19_Witness ==
    /\ DOMAIN runs = {2}
    /\ rbCalls[1] = 1
    /\ Live = 3
    /\ isProcessing

====
